---------------------------- MODULE Spec2Model ----------------------------
(***************************************************************************)
(* A model of cronexpr: the crontab matchers, the next-firing solver       *)
(* Crontab::find_next, the Driver cursor (src/src/lib.rs) and the          *)
(* expression parser parse_crontab (src/src/parser.rs).                    *)
(*                                                                         *)
(* Time.  A jiff Timestamp is modelled as a whole number of seconds since  *)
(* EpochYear-01-01T00:00:00 and a jiff Zoned as the record of its civil    *)
(* fields in the schedule's zone.  The zone is one of fixed offset (the    *)
(* zones of the repository's tests, Asia/Shanghai and UTC, have no         *)
(* daylight-saving transitions in the modelled years), so civil            *)
(* arithmetic is arithmetic on the proleptic Gregorian calendar.           *)
(***************************************************************************)
EXTENDS Integers, Sequences, FiniteSets, TLC

VARIABLES
    crontab,     \* Driver.crontab: the schedule (struct Crontab)
    timestamp,   \* Driver.timestamp: the cursor, a Timestamp
    origin,      \* the timestamp Crontab::drive was given
    pc,          \* position of the running call: "idle", "loop", "match", "parse"
    method,      \* the Driver method whose call is running or ran last
    start,       \* find_next: the timestamp argument of the running call
    bound,       \* find_next: local `bound`, a Zoned
    next,        \* find_next: local `next`, a Zoned
    outcome,     \* what the last finished call returned
    returned,    \* log of the finished calls: method, kind and instant of each
    input        \* parse_crontab: the input text, a sequence of characters

vars == <<crontab, timestamp, origin, pc, method, start, bound, next, outcome,
          returned, input>>

-----------------------------------------------------------------------------
(* Bounds of the model.                                                    *)

\* Calls made on one Driver.
MaxCalls == 2

\* Years after the start in which a later firing is looked for.
LookaheadYears == 12

\* Last year of the dates the matchers are applied to on their own.
LastMatchYear == 2033

-----------------------------------------------------------------------------
(* The calendar facility (jiff), as far as lib.rs uses it.                 *)

\* Year of the model's epoch; 1 January 2000 was a Saturday.
EpochYear == 2000

EpochWeekday == 6

IsLeapYear(y) == (y % 4 = 0) /\ ((y % 100 # 0) \/ (y % 400 = 0))

DaysInYear(y) == IF IsLeapYear(y) THEN 366 ELSE 365

\* Zoned::days_in_month
DaysInMonthOf(y, m) ==
    IF m = 2 THEN (IF IsLeapYear(y) THEN 29 ELSE 28)
    ELSE IF m \in {4, 6, 9, 11} THEN 30 ELSE 31

\* Leap years before year y.
LeapYearsBefore(y) == ((y - 1) \div 4) - ((y - 1) \div 100) + ((y - 1) \div 400)

\* Day number of 1 January of year y, counted from the epoch.
YearStart(y) ==
    365 * (y - EpochYear) + LeapYearsBefore(y) - LeapYearsBefore(EpochYear)

\* Days of a common year before the first of each month.
CommonMonthStart == <<0, 31, 59, 90, 120, 151, 181, 212, 243, 273, 304, 334>>

\* Days of year y before the first of month m.
MonthStart(y, m) ==
    CommonMonthStart[m] + (IF m > 2 /\ IsLeapYear(y) THEN 1 ELSE 0)

DayNumber(y, m, d) == YearStart(y) + MonthStart(y, m) + (d - 1)

Civil(y, m, d, h, mi, s) ==
    [year |-> y, month |-> m, day |-> d, hour |-> h, minute |-> mi, second |-> s]

\* Zoned::timestamp
TimestampOf(z) ==
    DayNumber(z.year, z.month, z.day) * 86400
        + z.hour * 3600 + z.minute * 60 + z.second

\* Timestamp::to_zoned
ToZoned(ts) ==
    LET n   == ts \div 86400
        r   == ts % 86400
        y   == CHOOSE yy \in (EpochYear + (n \div 366))..(EpochYear + (n \div 365)) :
                   YearStart(yy) <= n /\ n < YearStart(yy + 1)
        doy == n - YearStart(y)
        m   == CHOOSE mm \in 1..12 :
                   /\ MonthStart(y, mm) <= doy
                   /\ doy < MonthStart(y, mm) + DaysInMonthOf(y, mm)
    IN  Civil(y, m, doy - MonthStart(y, m) + 1,
              r \div 3600, (r % 3600) \div 60, r % 60)

\* Zoned::weekday as u8, Monday = 1 .. Sunday = 7
WeekdayOf(z) ==
    ((DayNumber(z.year, z.month, z.day) + EpochWeekday - 1) % 7) + 1

DaysInMonth(z) == DaysInMonthOf(z.year, z.month)

\* Zoned + n.days() / n.hours() / n.minutes() / 1.week()
AddSeconds(z, n) == ToZoned(TimestampOf(z) + n)

AddDays(z, n) == AddSeconds(z, n * 86400)

\* Zoned + n.years(): the day is clamped to the length of the target month
AddYears(z, n) ==
    LET y == z.year + n
        d == IF z.day > DaysInMonthOf(y, z.month)
             THEN DaysInMonthOf(y, z.month) ELSE z.day
    IN  [z EXCEPT !.year = y, !.day = d]

\* Zoned::round(ZonedRound::new().mode(RoundMode::Trunc).smallest(unit))
RoundTrunc(z, unit) ==
    CASE unit = "minute" -> [z EXCEPT !.second = 0]
      [] unit = "hour"   -> [z EXCEPT !.second = 0, !.minute = 0]
      [] unit = "day"    -> [z EXCEPT !.second = 0, !.minute = 0, !.hour = 0]

\* Zoned::nth_weekday_of_month(nth, weekday): the date, or <<>> for Err.
\* nth > 0 counts from the start of the month, nth < 0 from its end; nth = 0,
\* |nth| > 5 and an occurrence outside the month are errors.
NthWeekdayOfMonth(z, nth, weekday) ==
    LET dim   == DaysInMonth(z)
        first == [z EXCEPT !.day = 1]
        last  == [z EXCEPT !.day = dim]
        fwd   == 1 + ((weekday - WeekdayOf(first) + 7) % 7) + 7 * (nth - 1)
        bwd   == dim - ((WeekdayOf(last) - weekday + 7) % 7) - 7 * ((0 - nth) - 1)
    IN  IF nth = 0 \/ nth > 5 \/ nth < -5 THEN <<>>
        ELSE IF nth > 0
             THEN (IF fwd <= dim THEN <<z.year, z.month, fwd>> ELSE <<>>)
             ELSE (IF bwd >= 1 THEN <<z.year, z.month, bwd>> ELSE <<>>)

DateOf(z) == <<z.year, z.month, z.day>>

\* u8::MAX
U8Max == 255

\* `nth as i8` of a u8
AsI8(n) == IF n >= 128 THEN n - 256 ELSE n

-----------------------------------------------------------------------------
(* The schedule and its matchers (lib.rs).                                 *)

\* PossibleLiterals::matches
PossibleLiterals_matches(self, value) == value \in self.values

\* ParsedDaysOfWeek::matches, second loop: `(value + 1.week()).month() > value.month()`
LastDayOfWeekMatches(weekday, value) ==
    /\ WeekdayOf(value) = weekday
    /\ AddDays(value, 7).month > value.month

\* ParsedDaysOfWeek::matches, third loop
NthDayOfWeekMatches(nth, weekday, value) ==
    /\ WeekdayOf(value) = weekday
    /\ LET nth_weekday == NthWeekdayOfMonth(value, AsI8(nth), weekday)
       IN  nth_weekday # <<>> /\ nth_weekday = DateOf(value)

ParsedDaysOfWeek_matches(self, value) ==
    \/ WeekdayOf(value) \in self.literals
    \/ \E weekday \in self.last_days_of_week : LastDayOfWeekMatches(weekday, value)
    \/ \E p \in self.nth_days_of_week : NthDayOfWeekMatches(p[1], p[2], value)

\* ParsedDaysOfMonth::matches: `(value + 1.day()).month() > value.month()`
LastDayOfMonthMatches(value) == AddDays(value, 1).month > value.month

\* NearestWeekdayMatches without the edge case of Monday the 3rd.
NearestWeekdayMatchesNoEdge(day, value) ==
    LET wd == WeekdayOf(value)
        last_day_of_this_month == DaysInMonth(value)
    IN  CASE wd \in {6, 7} -> FALSE
          [] wd \in {2, 3, 4} -> value.day = day
          [] wd = 1 ->
                \/ value.day = day
                \/ value.day - 1 = day
          [] wd = 5 ->
                \/ value.day = day
                \/ (value.day + 1 = day /\ day <= last_day_of_this_month)
                \/ (value.day + 2 = day /\ day = last_day_of_this_month)

\* NearestWeekdayMatches without the guard `day <= last_day_of_this_month`
\* of the Friday before a Saturday.
NearestWeekdayMatchesNoGuard(day, value) ==
    LET wd == WeekdayOf(value)
        last_day_of_this_month == DaysInMonth(value)
    IN  CASE wd \in {6, 7} -> FALSE
          [] wd \in {2, 3, 4} -> value.day = day
          [] wd = 1 ->
                \/ value.day = day
                \/ value.day - 1 = day
                \/ (value.day = 3 /\ day = 1)
          [] wd = 5 ->
                \/ value.day = day
                \/ value.day + 1 = day
                \/ (value.day + 2 = day /\ day = last_day_of_this_month)

\* ParsedDaysOfMonth::matches, one iteration of the loop over nearest_weekdays:
\* TRUE when the iteration returns true.
NearestWeekdayMatches(day, value) ==
    LET wd == WeekdayOf(value)
        last_day_of_this_month == DaysInMonth(value)
    IN  CASE wd \in {6, 7} -> FALSE
          [] wd \in {2, 3, 4} -> value.day = day
          [] wd = 1 ->
                \/ value.day = day
                \/ value.day - 1 = day
                \/ (value.day = 3 /\ day = 1)
          [] wd = 5 ->
                \/ value.day = day
                \/ (value.day + 1 = day /\ day <= last_day_of_this_month)
                \/ (value.day + 2 = day /\ day = last_day_of_this_month)

\* ParsedDaysOfMonth_matches with a literal beyond the month's length taken
\* as the month's last day.
ParsedDaysOfMonthMatchesClamped(self, value) ==
    \/ \E d \in self.literals :
          value.day = (IF d > DaysInMonth(value) THEN DaysInMonth(value) ELSE d)
    \/ (self.last_day_of_month /\ LastDayOfMonthMatches(value))
    \/ \E day \in self.nearest_weekdays : NearestWeekdayMatches(day, value)

ParsedDaysOfMonth_matches(self, value) ==
    \/ value.day \in self.literals
    \/ (self.last_day_of_month /\ LastDayOfMonthMatches(value))
    \/ \E day \in self.nearest_weekdays : NearestWeekdayMatches(day, value)

-----------------------------------------------------------------------------
(* The solver (lib.rs, Crontab::find_next and advance_time_and_round).     *)

Span(unit, n) == [unit |-> unit, n |-> n]

SpanSeconds(span) ==
    CASE span.unit = "minute" -> span.n * 60
      [] span.unit = "hour"   -> span.n * 3600
      [] span.unit = "day"    -> span.n * 86400

\* advance_time_and_round(zoned, span, Some(unit)): checked_add, then round.
\* checked_add and round fail only outside jiff's range of years, which no
\* instant of the model reaches.
advance_time_and_round(zoned, span, unit) ==
    RoundTrunc(AddSeconds(zoned, SpanSeconds(span)), unit)

\* `bound = &zoned + 4.years()`
BoundOf(zoned) == AddYears(zoned, 4)

\* InitialCandidate without the advancement by one minute.
InitialCandidateNoAdvance(zoned) == RoundTrunc(zoned, "minute")

\* InitialCandidate without the rounding to the minute.
InitialCandidateNoRound(zoned) == AddSeconds(zoned, 60)

\* `next = advance_time_and_round(next, 1.minute(), Some(Unit::Minute))`
InitialCandidate(zoned) ==
    advance_time_and_round(zoned, Span("minute", 1), "minute")

\* RestDays one too large.
RestDaysOffByOne(z) == DaysInMonth(z) - z.day + 2

\* `rest_days = next.days_in_month() - next.day() + 1`
RestDays(z) == DaysInMonth(z) - z.day + 1

\* LoopBranch with Vixie's rule: day-of-month and day-of-week combined by
\* disjunction when neither field started with an asterisk.
LoopBranchVixie(self, candidate, limit) ==
    LET both == /\ ~self.days_of_month.start_with_asterisk
                /\ ~self.days_of_week.start_with_asterisk
        dom  == ParsedDaysOfMonth_matches(self.days_of_month, candidate)
        dow  == ParsedDaysOfWeek_matches(self.days_of_week, candidate)
    IN  IF TimestampOf(candidate) > TimestampOf(limit) THEN "exhausted"
        ELSE IF ~PossibleLiterals_matches(self.months, candidate.month) THEN "months"
        ELSE IF ~(dom \/ (both /\ dow)) THEN "days_of_month"
        ELSE IF ~PossibleLiterals_matches(self.hours, candidate.hour) THEN "hours"
        ELSE IF ~PossibleLiterals_matches(self.minutes, candidate.minute) THEN "minutes"
        ELSE IF ~(dow \/ (both /\ dom)) THEN "days_of_week"
        ELSE "break"

\* LoopBranch with the bound test `next >= bound`.
LoopBranchBoundExclusive(self, candidate, limit) ==
    IF TimestampOf(candidate) >= TimestampOf(limit) THEN "exhausted"
    ELSE IF ~PossibleLiterals_matches(self.months, candidate.month) THEN "months"
    ELSE IF ~ParsedDaysOfMonth_matches(self.days_of_month, candidate)
        THEN "days_of_month"
    ELSE IF ~PossibleLiterals_matches(self.hours, candidate.hour) THEN "hours"
    ELSE IF ~PossibleLiterals_matches(self.minutes, candidate.minute) THEN "minutes"
    ELSE IF ~ParsedDaysOfWeek_matches(self.days_of_week, candidate)
        THEN "days_of_week"
    ELSE "break"

\* The branch one iteration of the loop takes, in the order of the code.
LoopBranch(self, candidate, limit) ==
    IF TimestampOf(candidate) > TimestampOf(limit) THEN "exhausted"
    ELSE IF ~PossibleLiterals_matches(self.months, candidate.month) THEN "months"
    ELSE IF ~ParsedDaysOfMonth_matches(self.days_of_month, candidate)
        THEN "days_of_month"
    ELSE IF ~PossibleLiterals_matches(self.hours, candidate.hour) THEN "hours"
    ELSE IF ~PossibleLiterals_matches(self.minutes, candidate.minute) THEN "minutes"
    ELSE IF ~ParsedDaysOfWeek_matches(self.days_of_week, candidate)
        THEN "days_of_week"
    ELSE "break"

\* Advance with a day-of-month skip that rounds to the day without adding one.
AdvanceRoundingDay(branch, z) ==
    CASE branch = "months" ->
            advance_time_and_round(z, Span("day", RestDays(z)), "day")
      [] branch = "days_of_month" ->
            advance_time_and_round(z, Span("day", 0), "day")
      [] branch = "hours" ->
            advance_time_and_round(z, Span("hour", 1), "hour")
      [] branch = "minutes" ->
            advance_time_and_round(z, Span("minute", 1), "minute")
      [] branch = "days_of_week" ->
            advance_time_and_round(z, Span("day", 1), "day")

\* The advancement of each branch.
Advance(branch, z) ==
    CASE branch = "months" ->
            advance_time_and_round(z, Span("day", RestDays(z)), "day")
      [] branch = "days_of_month" ->
            advance_time_and_round(z, Span("day", 1), "day")
      [] branch = "hours" ->
            advance_time_and_round(z, Span("hour", 1), "hour")
      [] branch = "minutes" ->
            advance_time_and_round(z, Span("minute", 1), "minute")
      [] branch = "days_of_week" ->
            advance_time_and_round(z, Span("day", 1), "day")

-----------------------------------------------------------------------------
(* The Driver (lib.rs).                                                    *)

NoZoned == Civil(0, 0, 0, 0, 0, 0)

NoOutcome == [kind |-> "none", zoned |-> NoZoned, ts |-> -1]

Methods == {"next_zoned", "next_timestamp", "find_next_zoned", "find_next_timestamp"}

\* What a Driver method returns for the Zoned that find_next found:
\* find_next_timestamp takes zoned.timestamp(); the *_zoned methods convert
\* that timestamp back with to_zoned.
MethodResult(m, zoned) ==
    LET ts == TimestampOf(zoned)
    IN  IF m \in {"next_zoned", "find_next_zoned"}
        THEN [kind |-> "ok", zoned |-> ToZoned(ts), ts |-> -1]
        ELSE [kind |-> "ok", zoned |-> NoZoned, ts |-> ts]

\* CursorAfter with the assignment to self.timestamp in every method.
CursorAlwaysSet(m, zoned, cursor) == TimestampOf(zoned)

\* Driver.timestamp after method m, which got `zoned` from find_next.
CursorAfter(m, zoned, cursor) ==
    IF m \in {"next_zoned", "next_timestamp"} THEN TimestampOf(zoned) ELSE cursor

\* The instant an outcome denotes.
InstantOf(o) == IF o.ts # -1 THEN o.ts ELSE TimestampOf(o.zoned)

\* The entry of the log for method m returning outcome o.
Logged(m, o) ==
    [method |-> m, kind |-> o.kind,
     instant |-> IF o.kind = "ok" THEN InstantOf(o) ELSE -1]

\* The outcome viewed in the schedule's zone.
ZonedOf(o) == IF o.ts # -1 THEN ToZoned(o.ts) ELSE o.zoned

-----------------------------------------------------------------------------
(* The schedules and start instants the model draws from.                  *)

Literals(S) == [values |-> S]

DaysOfMonth(literals, last, nearest, asterisk) ==
    [literals |-> literals, last_day_of_month |-> last,
     nearest_weekdays |-> nearest, start_with_asterisk |-> asterisk]

DaysOfWeek(literals, lasts, nths, asterisk) ==
    [literals |-> literals, last_days_of_week |-> lasts,
     nth_days_of_week |-> nths, start_with_asterisk |-> asterisk]

MakeCrontab(minutes, hours, dom, months, dow) ==
    [minutes |-> Literals(minutes), hours |-> Literals(hours),
     months |-> Literals(months), days_of_month |-> dom, days_of_week |-> dow]

AnyDayOfMonth == DaysOfMonth(1..31, FALSE, {}, TRUE)

AnyDayOfWeek == DaysOfWeek(1..7, {}, {}, TRUE)

DomLiterals(S) == DaysOfMonth(S, FALSE, {}, FALSE)

DowLiterals(S) == DaysOfWeek(S, {}, {}, FALSE)

At(y, m, d, h, mi, sec) == TimestampOf(Civil(y, m, d, h, mi, sec))

\* The drivers of tests::test_next_timestamp (make_driver(crontab, timestamp)).
TestCases == {
    \* 0 0 1 1 *
    <<MakeCrontab({0}, {0}, DomLiterals({1}), {1}, AnyDayOfWeek),
      At(2024, 1, 1, 0, 0, 0)>>,
    \* 2 4 * * *
    <<MakeCrontab({2}, {4}, AnyDayOfMonth, 1..12, AnyDayOfWeek),
      At(2024, 9, 11, 19, 8, 35)>>,
    \* 0 0 31 * *
    <<MakeCrontab({0}, {0}, DomLiterals({31}), 1..12, AnyDayOfWeek),
      At(2024, 9, 11, 19, 8, 35)>>,
    \* 0 18 * * 1-5
    <<MakeCrontab({0}, {18}, AnyDayOfMonth, 1..12, DowLiterals(1..5)),
      At(2024, 9, 11, 19, 8, 35)>>,
    \* 0 18 * * TUE#1
    <<MakeCrontab({0}, {18}, AnyDayOfMonth, 1..12,
                  DaysOfWeek({}, {}, {<<1, 2>>}, FALSE)),
      At(2024, 9, 24, 0, 8, 35)>>,
    \* 4 2 * * 1L
    <<MakeCrontab({4}, {2}, AnyDayOfMonth, 1..12, DaysOfWeek({}, {1}, {}, FALSE)),
      At(2024, 9, 24, 0, 8, 35)>>,
    \* 3 11 L JAN-FEB,5 *
    <<MakeCrontab({3}, {11}, DaysOfMonth({}, TRUE, {}, FALSE), {1, 2, 5},
                  AnyDayOfWeek),
      At(2024, 9, 24, 0, 8, 35)>>,
    \* 3 11 17W,L * *
    <<MakeCrontab({3}, {11}, DaysOfMonth({}, TRUE, {17}, FALSE), 1..12,
                  AnyDayOfWeek),
      At(2024, 9, 24, 0, 8, 35)>>,
    \* 3 11 1W * *
    <<MakeCrontab({3}, {11}, DaysOfMonth({}, FALSE, {1}, FALSE), 1..12,
                  AnyDayOfWeek),
      At(2024, 9, 24, 0, 8, 35)>>,
    \* 3 11 31W * *
    <<MakeCrontab({3}, {11}, DaysOfMonth({}, FALSE, {31}, FALSE), 1..12,
                  AnyDayOfWeek),
      At(2024, 9, 24, 0, 8, 35)>>
}

\* Further drivers: schedules whose next firing is rare or absent, a
\* schedule that restricts both day fields, and starts at the end of a year.
OtherCases == {
    \* 0 0 1,15 1,3 *
    <<MakeCrontab({0}, {0}, DomLiterals({1, 15}), {1, 3}, AnyDayOfWeek),
      At(2024, 1, 1, 0, 0, 0)>>,
    \* 0 1 * * FRI#5
    <<MakeCrontab({0}, {1}, AnyDayOfMonth, 1..12,
                  DaysOfWeek({}, {}, {<<5, 5>>}, FALSE)),
      At(2024, 9, 24, 0, 8, 35)>>,
    \* 4 2 * * 1L
    <<MakeCrontab({4}, {2}, AnyDayOfMonth, 1..12, DaysOfWeek({}, {1}, {}, FALSE)),
      At(2024, 11, 30, 23, 59, 35)>>,
    \* 3 11 L * *
    <<MakeCrontab({3}, {11}, DaysOfMonth({}, TRUE, {}, FALSE), 1..12,
                  AnyDayOfWeek),
      At(2024, 11, 30, 23, 59, 35)>>,
    \* 0 0 30 2 *
    <<MakeCrontab({0}, {0}, DomLiterals({30}), {2}, AnyDayOfWeek),
      At(2024, 1, 1, 0, 0, 0)>>,
    \* 0 0 30 2 *, from the last minute of a leap day and of a year
    <<MakeCrontab({0}, {0}, DomLiterals({30}), {2}, AnyDayOfWeek),
      At(2024, 2, 29, 23, 59, 35)>>,
    <<MakeCrontab({0}, {0}, DomLiterals({30}), {2}, AnyDayOfWeek),
      At(2027, 12, 31, 23, 59, 59)>>,
    \* * * * * *
    <<MakeCrontab(0..59, 0..23, AnyDayOfMonth, 1..12, AnyDayOfWeek),
      At(2024, 9, 11, 19, 8, 35)>>,
    \* 0 0 29 2 *
    <<MakeCrontab({0}, {0}, DomLiterals({29}), {2}, AnyDayOfWeek),
      At(2024, 2, 29, 0, 0, 0)>>,
    \* 0 0 29 2 SUN
    <<MakeCrontab({0}, {0}, DomLiterals({29}), {2}, DowLiterals({7})),
      At(2024, 9, 24, 0, 8, 35)>>,
    \* 0,30 0 13 * FRI
    <<MakeCrontab({0, 30}, {0}, DomLiterals({13}), 1..12, DowLiterals({5})),
      At(2024, 9, 11, 19, 8, 35)>>
}

Cases == TestCases \cup OtherCases

-----------------------------------------------------------------------------
(* Specification Spec: one Driver, its methods, and the solver loop they   *)
(* run, one action for each branch of an iteration.                        *)

\* Crontab::drive(timestamp)
Init ==
    /\ \E c \in Cases : crontab = c[1] /\ timestamp = c[2]
    /\ origin = timestamp
    /\ pc = "idle"
    /\ method = "none"
    /\ start = -1
    /\ bound = NoZoned
    /\ next = NoZoned
    /\ outcome = NoOutcome
    /\ returned = <<>>
    /\ input = <<>>

\* A Driver method is called: find_next_timestamp calls
\* Crontab::find_next(self.timestamp), which runs up to its loop.
Call(m) ==
    /\ pc = "idle"
    /\ Len(returned) < MaxCalls
    /\ method' = m
    /\ start' = timestamp
    /\ bound' = BoundOf(ToZoned(timestamp))
    /\ next' = InitialCandidate(ToZoned(timestamp))
    /\ pc' = "loop"
    /\ outcome' = NoOutcome
    /\ UNCHANGED <<crontab, timestamp, origin, returned, input>>

\* An iteration that advances the candidate and continues.
Skip(branch) ==
    /\ pc = "loop"
    /\ LoopBranch(crontab, next, bound) = branch
    /\ next' = Advance(branch, next)
    /\ UNCHANGED <<crontab, timestamp, origin, pc, method, start, bound,
                   outcome, returned, input>>

SkipMonths == Skip("months")

SkipDaysOfMonth == Skip("days_of_month")

SkipHours == Skip("hours")

SkipMinutes == Skip("minutes")

SkipDaysOfWeek == Skip("days_of_week")

\* Exhausted with the cursor moved to the candidate the search ended with.
ExhaustedMovingCursor ==
    /\ pc = "loop"
    /\ LoopBranch(crontab, next, bound) = "exhausted"
    /\ outcome' = [kind |-> "exhausted", zoned |-> next, ts |-> -1]
    /\ timestamp' = TimestampOf(next)
    /\ returned' = Append(returned, Logged(method, outcome'))
    /\ pc' = "idle"
    /\ UNCHANGED <<crontab, origin, method, start, bound, next, input>>

\* `if next > bound { return Err(..) }`: the error goes through the `?` of
\* the Driver method, before its assignment to self.timestamp.
Exhausted ==
    /\ pc = "loop"
    /\ LoopBranch(crontab, next, bound) = "exhausted"
    /\ outcome' = [kind |-> "exhausted", zoned |-> next, ts |-> -1]
    /\ returned' = Append(returned, Logged(method, outcome'))
    /\ pc' = "idle"
    /\ UNCHANGED <<crontab, timestamp, origin, method, start, bound, next, input>>

\* `break Ok(next)`, and the rest of the Driver method.
Return ==
    /\ pc = "loop"
    /\ LoopBranch(crontab, next, bound) = "break"
    /\ outcome' = MethodResult(method, next)
    /\ timestamp' = CursorAfter(method, next, timestamp)
    /\ returned' = Append(returned, Logged(method, outcome'))
    /\ pc' = "idle"
    /\ UNCHANGED <<crontab, origin, method, start, bound, next, input>>

Next ==
    \/ \E m \in Methods : Call(m)
    \/ SkipMonths
    \/ SkipDaysOfMonth
    \/ SkipHours
    \/ SkipMinutes
    \/ SkipDaysOfWeek
    \/ Exhausted
    \/ Return

Spec == Init /\ [][Next]_vars

-----------------------------------------------------------------------------
(* Properties of the solver and the Driver, checked under Spec.            *)

\* z satisfies all five fields of the schedule.
Satisfies(self, z) ==
    /\ PossibleLiterals_matches(self.months, z.month)
    /\ ParsedDaysOfMonth_matches(self.days_of_month, z)
    /\ PossibleLiterals_matches(self.hours, z.hour)
    /\ PossibleLiterals_matches(self.minutes, z.minute)
    /\ ParsedDaysOfWeek_matches(self.days_of_week, z)

\* No minute-aligned instant u with lo < u < hi satisfies the schedule.  Only
\* the instants whose hour and minute are in the schedule's sets are tried:
\* every other instant fails Satisfies on its hour or minute.
NoFiringBetween(self, lo, hi) ==
    \A n \in (lo \div 86400)..(hi \div 86400) :
        \A h \in self.hours.values : \A mi \in self.minutes.values :
            LET u == n * 86400 + h * 3600 + mi * 60
            IN  (lo < u /\ u < hi) => ~Satisfies(self, ToZoned(u))

Finished(kind) == pc = "idle" /\ outcome.kind = kind

\* The log entries of the instants next_zoned and next_timestamp returned.
Emitted == SelectSeq(returned, LAMBDA r :
               r.kind = "ok" /\ r.method \in {"next_zoned", "next_timestamp"})

\* C1: an instant that find_next returns is later than the start instant and,
\* in the schedule's zone, its minute, hour and month are in the schedule's
\* sets and both days_of_month and days_of_week match it (conjunction, also
\* when both fields are restricted).
C1_ReturnedInstantSatisfiesAllFields ==
    Finished("ok") =>
        LET t == ZonedOf(outcome)
        IN  /\ InstantOf(outcome) > start
            /\ t.minute \in crontab.minutes.values
            /\ t.hour \in crontab.hours.values
            /\ t.month \in crontab.months.values
            /\ ParsedDaysOfMonth_matches(crontab.days_of_month, t)
            /\ ParsedDaysOfWeek_matches(crontab.days_of_week, t)

\* A call returned an instant for a schedule whose day-of-month and
\* day-of-week fields are both restricted.
C1_Witness ==
    /\ Finished("ok")
    /\ ~crontab.days_of_month.start_with_asterisk
    /\ ~crontab.days_of_week.start_with_asterisk
    /\ crontab.days_of_month.literals = {13}

C3_EmittedStrictlyIncreasing ==
    \A i \in 1..Len(Emitted) :
        Emitted[i].instant > (IF i = 1 THEN origin ELSE Emitted[i - 1].instant)

\* Two instants were emitted.
C3_Witness == Len(Emitted) >= 2

C9_CursorFrame ==
    /\ Finished("ok") =>
          /\ InstantOf(outcome) = TimestampOf(next)
          /\ method \in {"next_zoned", "next_timestamp"}
                => timestamp = InstantOf(outcome)
          /\ method \in {"find_next_zoned", "find_next_timestamp"}
                => timestamp = start
    /\ \A i \in 2..Len(returned) :
          (/\ returned[i - 1].kind = "ok"
           /\ returned[i - 1].method \in {"find_next_zoned", "find_next_timestamp"})
              => /\ returned[i].kind = "ok"
                 /\ returned[i].instant = returned[i - 1].instant

\* find_next_zoned, then next_timestamp, both successful.
C9_Witness ==
    /\ Len(returned) >= 2
    /\ returned[1].method = "find_next_zoned"
    /\ returned[2].method = "next_timestamp"
    /\ returned[2].kind = "ok"
    /\ timestamp = returned[2].instant

\* C12: every candidate of the solver loop, whichever advancement produced
\* it, and every instant a Driver method returns is on a whole minute: its
\* second is 0, also when the start instant is not on a whole minute.
C12_ReturnedOnWholeMinute ==
    /\ pc = "loop" => next.second = 0 /\ TimestampOf(next) % 60 = 0
    /\ Finished("ok") =>
          /\ InstantOf(outcome) % 60 = 0
          /\ ZonedOf(outcome).second = 0

\* A call that started 35 seconds into a minute returned the next minute,
\* the first candidate, without any skip.
C12_Witness ==
    /\ Finished("ok")
    /\ start % 60 = 35
    /\ InstantOf(outcome) = start + 25

\* The schedule `0 0 30 2 *`: day 30 of month 2.
IsDayThirtyOfFebruary(self) ==
    /\ self.months.values = {2}
    /\ self.days_of_month = DomLiterals({30})
    /\ self.days_of_week.start_with_asterisk

\* C11: for the schedule `0 0 30 2 *` every call of find_next ends with the
\* exhaustion error, never with an instant, and the candidate it ends with
\* is later than bound = start + 4 years.
C11_DayThirtyOfFebruaryExhausts ==
    IsDayThirtyOfFebruary(crontab) =>
        /\ \A i \in 1..Len(returned) : returned[i].kind = "exhausted"
        /\ (pc = "idle" /\ returned # <<>>) =>
              /\ outcome.kind = "exhausted"
              /\ bound = AddYears(ToZoned(start), 4)
              /\ TimestampOf(outcome.zoned) > TimestampOf(bound)

\* `0 0 30 2 *` was exhausted twice, from a start on a leap day.
C11_Witness ==
    /\ IsDayThirtyOfFebruary(crontab)
    /\ Finished("exhausted")
    /\ Len(returned) = 2
    /\ ToZoned(start).month = 2 /\ ToZoned(start).day = 29

-----------------------------------------------------------------------------
(* Specifications SpecDaysOfMonth and SpecDaysOfWeek: a matcher applied to *)
(* every date of the years 2023 to LastMatchYear, for a field made of one  *)
(* term.                                                                   *)

MatchDates ==
    {Civil(y, m, d, 0, 0, 0) : y \in 2023..LastMatchYear, m \in 1..12, d \in 1..31}

\* The day-of-month field `L`, and `<d>W` for every d.
DayOfMonthTerms ==
    {DaysOfMonth({}, TRUE, {}, FALSE)}
        \cup {DaysOfMonth({}, FALSE, {d}, FALSE) : d \in 1..31}

\* The counts n of a term `<w>#<n>`: those a month can have, and 0, 6 and
\* the largest u8.
NthCounts == 0..6 \cup {U8Max}

\* The day-of-week field `<w>L`, and `<w>#<n>` for every w and n in NthCounts.
DayOfWeekTerms ==
    {DaysOfWeek({}, {w}, {}, FALSE) : w \in 1..7}
        \cup {DaysOfWeek({}, {}, {<<n, w>>}, FALSE) : n \in NthCounts, w \in 1..7}

InitMatch(crontabs) ==
    /\ crontab \in crontabs
    /\ next \in {z \in MatchDates : z.day <= DaysInMonth(z)}
    /\ pc = "match"
    /\ timestamp = -1
    /\ origin = -1
    /\ method = "none"
    /\ start = -1
    /\ bound = NoZoned
    /\ outcome = NoOutcome
    /\ returned = <<>>
    /\ input = <<>>

InitDaysOfMonth ==
    InitMatch({MakeCrontab({3}, {11}, dom, 1..12, AnyDayOfWeek) : dom \in DayOfMonthTerms})

InitDaysOfWeek ==
    InitMatch({MakeCrontab({0}, {18}, AnyDayOfMonth, 1..12, dow) : dow \in DayOfWeekTerms})

\* `self.days_of_month.matches(&next)`
MatchDaysOfMonth ==
    /\ pc = "match"
    /\ outcome' = [kind |-> "days_of_month",
                   value |-> ParsedDaysOfMonth_matches(crontab.days_of_month, next)]
    /\ pc' = "matched"
    /\ UNCHANGED <<crontab, timestamp, origin, method, start, bound, next,
                   returned, input>>

\* `self.days_of_week.matches(&next)`
MatchDaysOfWeek ==
    /\ pc = "match"
    /\ outcome' = [kind |-> "days_of_week",
                   value |-> ParsedDaysOfWeek_matches(crontab.days_of_week, next)]
    /\ pc' = "matched"
    /\ UNCHANGED <<crontab, timestamp, origin, method, start, bound, next,
                   returned, input>>

SpecDaysOfMonth == InitDaysOfMonth /\ [][MatchDaysOfMonth]_vars

SpecDaysOfWeek == InitDaysOfWeek /\ [][MatchDaysOfWeek]_vars

Matched(kind) == pc = "matched" /\ outcome.kind = kind

\* The date z moved to day d of its month.
OnDay(z, d) == [z EXCEPT !.day = d]

\* z is the final calendar day of its month.
IsLastDayOfMonth(z) == z.day = DaysInMonth(z)

\* C5 as claimed: the field `L` matches z exactly when z is the final day of
\* its month, that is when z + 1 day lies in a different month, December
\* included.
C5_LastDayMatchesInEveryMonth ==
    (Matched("days_of_month") /\ crontab.days_of_month.last_day_of_month) =>
        (outcome.value <=> (IsLastDayOfMonth(next)
                            /\ AddDays(next, 1).month # next.month))

\* C6 as claimed: the field `<w>L` matches z exactly when z falls on w and
\* z + 7 days lies in a different month, December included.
C6_LastWeekdayMatchesInEveryMonth ==
    (Matched("days_of_week") /\ crontab.days_of_week.last_days_of_week # {}) =>
        (outcome.value <=>
            \E w \in crontab.days_of_week.last_days_of_week :
                /\ WeekdayOf(next) = w
                /\ AddDays(next, 7).month # next.month
                /\ next.day + 7 > DaysInMonth(next))

\* The day of z's month that the claim names for `<d>W`.
NearestWeekdayOf(d, z) ==
    LET wd == WeekdayOf(OnDay(z, d))
    IN  IF wd \in 1..5 THEN d
        ELSE IF wd = 6 THEN (IF d = 1 THEN 3 ELSE d - 1)
        ELSE (IF d = DaysInMonth(z) THEN d - 2 ELSE d + 1)

\* C7: for d no greater than the length of the month, the field `<d>W`
\* matches exactly one day of the month; that day is Monday to Friday and is
\* d itself on a weekday, d-1 for a Saturday other than the 1st, the 3rd for
\* Saturday the 1st, d+1 for a Sunday other than the last day and d-2 for a
\* Sunday that is the last day of the month.
C7_NearestWeekdayIsUnique ==
    (/\ Matched("days_of_month")
     /\ Cardinality(crontab.days_of_month.nearest_weekdays) = 1) =>
        \A d \in crontab.days_of_month.nearest_weekdays :
            d <= DaysInMonth(next) =>
                LET e == NearestWeekdayOf(d, next)
                IN  /\ outcome.value <=> (next.day = e)
                    /\ e \in 1..DaysInMonth(next)
                    /\ WeekdayOf(OnDay(next, e)) \in 1..5
                    /\ Cardinality({x \in 1..DaysInMonth(next) :
                           ParsedDaysOfMonth_matches(crontab.days_of_month,
                                                     OnDay(next, x))}) = 1

\* `1W` matched Monday the 3rd of a month whose 1st is a Saturday.
C7_Witness ==
    /\ Matched("days_of_month")
    /\ crontab.days_of_month.nearest_weekdays = {1}
    /\ next.day = 3
    /\ WeekdayOf(OnDay(next, 1)) = 6
    /\ outcome.value

\* C8 as claimed: the field `<w>#<n>` matches z exactly when z falls on w and is the
\* n-th day of its month to do so (the n-th occurrence lies among the days
\* 7(n-1)+1 .. 7n); so it matches no day of a month with fewer than n
\* occurrences of w.
C8_NthWeekdayMatchesNthOccurrence ==
    Matched("days_of_week") =>
        \A p \in crontab.days_of_week.nth_days_of_week :
            /\ outcome.value <=>
                  (WeekdayOf(next) = p[2] /\ ((next.day - 1) \div 7) + 1 = p[1])
            /\ (Cardinality({x \in 1..DaysInMonth(next) :
                                WeekdayOf(OnDay(next, x)) = p[2]}) < p[1])
                  => ~outcome.value

\* `31W` was matched against a day of a month of 30 days.
ThirtyOneWInShortMonth ==
    /\ Matched("days_of_month")
    /\ crontab.days_of_month.nearest_weekdays = {31}
    /\ DaysInMonth(next) = 30

\* C20 as claimed: `31W` in a month of 30 days matches the 30th when the
\* 30th is a Friday.
C20_ThirtyOneWSelectsFridayThirtieth ==
    (ThirtyOneWInShortMonth /\ next.day = 30 /\ WeekdayOf(next) = 5)
        => outcome.value

\* C20 amended: `31W` matches no day of a month of 30 days, the 30th
\* included when it is a Friday.
C20_ThirtyOneWSelectsNoDayOfShortMonth ==
    ThirtyOneWInShortMonth => ~outcome.value

\* `31W` did not match a Friday the 30th, last day of its month.
C20_Witness ==
    /\ ThirtyOneWInShortMonth
    /\ next.day = 30
    /\ WeekdayOf(next) = 5
    /\ ~outcome.value

-----------------------------------------------------------------------------
(* The parser (parser.rs).  A string is a sequence of one-character        *)
(* strings; an offset counts the characters before a position, as the      *)
(* byte offsets of the code do on ASCII text.  A parser takes the text and *)
(* the offset it starts at and gives a result: ok with the offset reached  *)
(* and a value, or an error with the offset the input was left at, whether *)
(* the error is a cut (ErrMode::Cut) and the message of its cause.         *)

POk(pos, val) == [ok |-> TRUE, pos |-> pos, val |-> val, cut |-> FALSE, msg |-> ""]

PErr(pos, cut, msg) == [ok |-> FALSE, pos |-> pos, val |-> <<>>, cut |-> cut, msg |-> msg]

\* `let x = e; body`: Let({body : x \in {e}}) evaluates e once and names it x.
Let(S) == CHOOSE v \in S : TRUE

Digits == <<"0", "1", "2", "3", "4", "5", "6", "7", "8", "9">>

IsDigit(c) == \E i \in 1..10 : Digits[i] = c

DigitValue(c) == (CHOOSE i \in 1..10 : Digits[i] = c) - 1

\* str::split_ascii_whitespace: space, tab, line feed, form feed, carriage return
IsAsciiWhitespace(c) == c \in {" ", "\t", "\n", "\f", "\r"}

\* The offset after the run of digits that starts at offset p.
RECURSIVE DigitsEnd(_, _)
DigitsEnd(t, p) ==
    IF p < Len(t) /\ IsDigit(t[p + 1]) THEN DigitsEnd(t, p + 1) ELSE p

\* The number written by the digits of t from offset a up to offset b.
RECURSIVE DigitsValue(_, _, _)
DigitsValue(t, a, b) ==
    IF a >= b THEN 0 ELSE DigitsValue(t, a, b - 1) * 10 + DigitValue(t[b])

\* winnow::ascii::dec_uint into an unsigned type of maximum `max`: a digit
\* 1-9 and the digits after it, or a single 0; a value above `max` fails,
\* with the input reset.
dec_uint(max, t, p) ==
    IF p >= Len(t) \/ ~IsDigit(t[p + 1]) THEN PErr(p, FALSE, "")
    ELSE Let({ Let({ IF n > max THEN PErr(p, FALSE, "") ELSE POk(e, n)
                     : n \in {DigitsValue(t, p, e)} })
               : e \in {IF t[p + 1] = "0" THEN p + 1 ELSE DigitsEnd(t, p)} })

\* A literal such as "-", "/", "L", "SUN".
Tag(lit, t, p) ==
    IF p + Len(lit) <= Len(t) /\ SubSeq(t, p + 1, p + Len(lit)) = lit
    THEN POk(p + Len(lit), lit)
    ELSE PErr(p, FALSE, "")

\* winnow::combinator::eof
Eof(t, p) == IF p = Len(t) THEN POk(p, <<>>) ELSE PErr(p, FALSE, "")

\* Stands for u64::MAX: larger than every number a text of the model writes.
NumberLimit == 1000000

\* parse_single_number without the test `range.contains(&n)`.
ParseSingleNumberAnyU8(lo, hi, t, p) ==
    Let({ IF ~r.ok THEN r
          ELSE IF r.val > U8Max THEN PErr(p, TRUE, "value must be in range")
          ELSE r
          : r \in {dec_uint(NumberLimit, t, p)} })

\* parse_single_number(range): dec_uint.try_map_cut(..)
parse_single_number(lo, hi, t, p) ==
    Let({ IF ~r.ok THEN r
          ELSE IF r.val > U8Max THEN PErr(p, TRUE, "value must be in range")
          ELSE IF r.val >= lo /\ r.val <= hi THEN r
          ELSE PErr(p, TRUE, "value must be in range")
          : r \in {dec_uint(NumberLimit, t, p)} })

WeekdayNames ==
    << <<"S", "U", "N">>, <<"M", "O", "N">>, <<"T", "U", "E">>, <<"W", "E", "D">>,
       <<"T", "H", "U">>, <<"F", "R", "I">>, <<"S", "A", "T">> >>

\* parse_days_of_week::parse_single_day_of_week: SUN = 0 .. SAT = 6, or a number
parse_single_day_of_week(lo, hi, t, p) ==
    Let({ IF names # {} THEN POk(p + 3, (CHOOSE i \in names : TRUE) - 1)
          ELSE parse_single_number(lo, hi, t, p)
          : names \in {{i \in 1..7 : Tag(WeekdayNames[i], t, p).ok}} })

\* The range bound parser passed to parse_range and parse_step.
SingleBound(dow, lo, hi, t, p) ==
    IF dow THEN parse_single_day_of_week(lo, hi, t, p)
    ELSE parse_single_number(lo, hi, t, p)

\* lo..=hi collected into a Vec
RangeVec(lo, hi) == [i \in 1..(hi - lo + 1) |-> lo + i - 1]

\* parse_asterisk(range)
parse_asterisk(lo, hi, t, p) ==
    Let({ IF r.ok THEN POk(r.pos, RangeVec(lo, hi)) ELSE r
          : r \in {Tag(<<"*">>, t, p)} })

\* RangeOf with a recoverable error for a descending range.
RangeOfBacktracking(lo, hi, p, a, b) ==
    IF a.val > b.val THEN PErr(p, FALSE, "range must be in ascending order")
    ELSE IF a.val >= lo /\ a.val <= hi /\ b.val >= lo /\ b.val <= hi
         THEN POk(b.pos, RangeVec(a.val, b.val))
    ELSE PErr(p, TRUE, "range must be in range")

\* parse_range, the closure given to try_map_cut
RangeOf(lo, hi, p, a, b) ==
    IF a.val > b.val THEN PErr(p, TRUE, "range must be in ascending order")
    ELSE IF a.val >= lo /\ a.val <= hi /\ b.val >= lo /\ b.val <= hi
         THEN POk(b.pos, RangeVec(a.val, b.val))
    ELSE PErr(p, TRUE, "range must be in range")

\* parse_range(range, bound): (bound, "-", bound).try_map_cut(..)
parse_range(dow, lo, hi, t, p) ==
    Let({ IF ~a.ok THEN a
          ELSE Let({ IF ~d.ok THEN d
                     ELSE Let({ IF ~b.ok THEN b ELSE RangeOf(lo, hi, p, a, b)
                                : b \in {SingleBound(dow, lo, hi, t, d.pos)} })
                     : d \in {Tag(<<"-">>, t, a.pos)} })
          : a \in {SingleBound(dow, lo, hi, t, p)} })

\* StepBy without its first element.
StepBySkippingFirst(candidates, step) ==
    [i \in 1..((Len(candidates) - 1) \div step) |-> candidates[i * step + 1]]

\* Iterator::step_by(step) collected into a Vec
StepBy(candidates, step) ==
    [i \in 1..((Len(candidates) + step - 1) \div step) |-> candidates[(i - 1) * step + 1]]

\* parse_step: alt((asterisk, range, bound => n..=range_end))
StepCandidates(dow, lo, hi, t, p) ==
    Let({ IF a.ok \/ a.cut THEN a
          ELSE Let({ IF r.ok \/ r.cut THEN r
                     ELSE Let({ IF n.ok THEN POk(n.pos, RangeVec(n.val, hi)) ELSE n
                                : n \in {SingleBound(dow, lo, hi, t, p)} })
                     : r \in {parse_range(dow, lo, hi, t, p)} })
          : a \in {parse_asterisk(lo, hi, t, p)} })

\* StepOf without the test `range.contains(&step)`.
StepOfAnyStep(lo, hi, p, c, st) ==
    IF st.val = 0 THEN PErr(p, TRUE, "step must be greater than 0")
    ELSE IF st.val > U8Max THEN PErr(p, TRUE, "step must be in range")
    ELSE POk(st.pos, StepBy(c.val, st.val))

\* parse_step, the closure given to try_map_cut
StepOf(lo, hi, p, c, st) ==
    IF st.val = 0 THEN PErr(p, TRUE, "step must be greater than 0")
    ELSE IF st.val > U8Max THEN PErr(p, TRUE, "step must be in range")
    ELSE IF ~(st.val >= lo /\ st.val <= hi) THEN PErr(p, TRUE, "step must be in range")
    ELSE POk(st.pos, StepBy(c.val, st.val))

\* parse_step(range, bound): (candidates, "/", dec_uint).try_map_cut(..)
parse_step(dow, lo, hi, t, p) ==
    Let({ IF ~c.ok THEN c
          ELSE Let({ IF ~d.ok THEN d
                     ELSE Let({ IF ~st.ok THEN st ELSE StepOf(lo, hi, p, c, st)
                                : st \in {dec_uint(NumberLimit, t, d.pos)} })
                     : d \in {Tag(<<"/">>, t, c.pos)} })
          : c \in {StepCandidates(dow, lo, hi, t, p)} })

\* PossibleValue
Literal(n) == [tag |-> "Literal", n |-> n]

LastDayOfWeek(weekday) == [tag |-> "LastDayOfWeek", weekday |-> weekday]

NthDayOfWeek(nth, weekday) == [tag |-> "NthDayOfWeek", nth |-> nth, weekday |-> weekday]

\* parse_days_of_week::norm_sunday
norm_sunday(n) == IF n # 0 THEN n ELSE 7

\* parse_days_of_week::make_weekday: the Weekday of Monday-one offset norm_sunday(n)
make_weekday(n) == norm_sunday(n)

\* `r.into_iter().map(norm_sunday).map(PossibleValue::Literal).collect()`; the
\* number-only fields do not map norm_sunday.
Literals_of(dow, r) ==
    [i \in 1..Len(r) |-> Literal(IF dow THEN norm_sunday(r[i]) ELSE r[i])]

\* parse_single_day_of_week_ext, second alternative after the weekday n:
\* ("#", dec_uint into a u8)
NthSuffix(t, n) ==
    Let({ IF ~h.ok THEN h
          ELSE Let({ IF th.ok THEN POk(th.pos, NthDayOfWeek(th.val, make_weekday(n.val)))
                     ELSE th
                     : th \in {dec_uint(U8Max, t, h.pos)} })
          : h \in {Tag(<<"#">>, t, n.pos)} })

\* parse_days_of_week::parse_single_day_of_week_ext
parse_single_day_of_week_ext(lo, hi, t, p) ==
    Let({ IF ~n.ok THEN n
          ELSE Let({ IF l.ok THEN POk(l.pos, LastDayOfWeek(make_weekday(n.val)))
                     ELSE Let({ IF nth.ok \/ nth.cut THEN nth
                                ELSE POk(n.pos, Literal(norm_sunday(n.val)))
                                : nth \in {NthSuffix(t, n)} })
                     : l \in {Tag(<<"L">>, t, n.pos)} })
          : n \in {parse_single_day_of_week(lo, hi, t, p)} })

\* The single term of a list item: a number, or a day of the week with its
\* suffix, as a Vec<PossibleValue>.
SingleItem(dow, lo, hi, t, p) ==
    Let({ IF n.ok THEN POk(n.pos, IF dow THEN <<n.val>> ELSE <<Literal(n.val)>>) ELSE n
          : n \in {IF dow THEN parse_single_day_of_week_ext(lo, hi, t, p)
                   ELSE parse_single_number(lo, hi, t, p)} })

\* A parser's result mapped to a Vec<PossibleValue> of literals.
AsLiterals(dow, r) == IF r.ok THEN POk(r.pos, Literals_of(dow, r.val)) ELSE r

\* The list item of a field: alt((step, range, single, asterisk)), each
\* mapped to a Vec<PossibleValue>.
ListItem(dow, lo, hi, t, p) ==
    Let({ IF st.ok \/ st.cut THEN AsLiterals(dow, st)
          ELSE Let({ IF r.ok \/ r.cut THEN AsLiterals(dow, r)
                     ELSE Let({ IF n.ok \/ n.cut THEN n
                                ELSE AsLiterals(dow, parse_asterisk(lo, hi, t, p))
                                : n \in {SingleItem(dow, lo, hi, t, p)} })
                     : r \in {parse_range(dow, lo, hi, t, p)} })
          : st \in {parse_step(dow, lo, hi, t, p)} })

\* winnow::combinator::separated(1.., item, ","), after the first item
RECURSIVE SeparatedRest(_, _, _, _, _, _)
SeparatedRest(dow, lo, hi, t, p, acc) ==
    Let({ IF ~sep.ok THEN POk(p, acc)
          ELSE Let({ IF item.ok
                     THEN SeparatedRest(dow, lo, hi, t, item.pos, acc \o item.val)
                     ELSE IF item.cut THEN item
                     ELSE POk(p, acc)
                     : item \in {ListItem(dow, lo, hi, t, sep.pos)} })
          : sep \in {Tag(<<",">>, t, p)} })

\* parse_list(item): (separated(1.., item, ","), eof), flattened
parse_list(dow, lo, hi, t, p) ==
    Let({ IF ~first.ok THEN first
          ELSE Let({ IF ~rest.ok THEN rest
                     ELSE Let({ IF ~e.ok THEN e ELSE rest : e \in {Eof(t, rest.pos)} })
                     : rest \in {SeparatedRest(dow, lo, hi, t, first.pos, first.val)} })
          : first \in {ListItem(dow, lo, hi, t, p)} })

\* do_parse_number_only(range, input), run by Parser::parse on a whole part
do_parse_number_only(lo, hi, t) ==
    Let({ IF ~values.ok THEN values
          ELSE POk(values.pos,
                   [values |-> {values.val[i].n : i \in 1..Len(values.val)}])
          : values \in {parse_list(FALSE, lo, hi, t, 0)} })

parse_minutes(t) == do_parse_number_only(0, 59, t)

parse_hours(t) == do_parse_number_only(0, 23, t)

parse_days_of_month(t) == do_parse_number_only(1, 31, t)

parse_months(t) == do_parse_number_only(1, 12, t)

\* The values of one kind that parse_days_of_week collects.
ValuesOf(tag, values) ==
    {values[i] : i \in {j \in 1..Len(values) : values[j].tag = tag}}

\* parse_days_of_week(input), run by Parser::parse on a whole part
parse_days_of_week(t) ==
    Let({ IF ~values.ok THEN values
          ELSE POk(values.pos,
                   [literals |-> {v.n : v \in ValuesOf("Literal", values.val)},
                    last_days_of_week |->
                        {v.weekday : v \in ValuesOf("LastDayOfWeek", values.val)},
                    nth_days_of_week |->
                        {<<v.nth, v.weekday>> : v \in ValuesOf("NthDayOfWeek", values.val)}])
          : values \in {parse_list(TRUE, 0, 7, t, 0)} })

\* The zones jiff::tz::TimeZone::get finds, among the names the model writes.
KnownTimeZones == { <<"U", "T", "C">> }

\* parse_timezone: take_while(0.., |_| true).try_map_cut(TimeZone::get)
parse_timezone(t) ==
    IF t \in KnownTimeZones THEN POk(Len(t), t)
    ELSE PErr(0, TRUE, "failed to find timezone")

\* split_ascii_whitespace splitting at spaces only.
RECURSIVE SplitAtSpaces(_, _, _)
SplitAtSpaces(t, i, cur) ==
    IF i > Len(t) THEN (IF cur = <<>> THEN <<>> ELSE <<cur>>)
    ELSE IF t[i] = " "
         THEN (IF cur = <<>> THEN <<>> ELSE <<cur>>) \o SplitAtSpaces(t, i + 1, <<>>)
         ELSE SplitAtSpaces(t, i + 1, Append(cur, t[i]))

\* str::split_ascii_whitespace: the maximal runs of characters that are not
\* ASCII whitespace, in order; `cur` is the run being read.
RECURSIVE split_ascii_whitespace(_, _, _)
split_ascii_whitespace(t, i, cur) ==
    IF i > Len(t) THEN (IF cur = <<>> THEN <<>> ELSE <<cur>>)
    ELSE IF IsAsciiWhitespace(t[i])
         THEN (IF cur = <<>> THEN <<>> ELSE <<cur>>)
              \o split_ascii_whitespace(t, i + 1, <<>>)
         ELSE split_ascii_whitespace(t, i + 1, Append(cur, t[i]))

\* [&str]::join(" ")
RECURSIVE join(_)
join(parts) ==
    IF parts = <<>> THEN <<>>
    ELSE IF Len(parts) = 1 THEN parts[1]
    ELSE parts[1] \o <<" ">> \o join(Tail(parts))

normalize_crontab(t) == join(split_ascii_whitespace(t, 1, <<>>))

\* `normalized[start..].find(' ').map(|i| i + start).unwrap_or(normalized.len())`
FieldEnd(normalized, from) ==
    Let({ IF spaces = {} THEN Len(normalized)
          ELSE CHOOSE i \in spaces : \A j \in spaces : i <= j
          : spaces \in {{i \in from..(Len(normalized) - 1) : normalized[i + 1] = " "}} })

\* `&normalized[from..to]`
Slice(normalized, from, to) == SubSeq(normalized, from + 1, to)

\* Indexing a str by a range that starts after its end or after the range's
\* end panics.
SlicePanics(normalized, from, to) == from > to \/ to > Len(normalized)

Panic == [kind |-> "panic", input |-> <<>>, caret |-> -1, msg |-> ""]

\* format_parse_error: the text shown, the column of the caret and the
\* message after it.
format_parse_error(normalized, from, err) ==
    [kind  |-> "error",
     input |-> normalized,
     caret |-> from + err.pos,
     msg   |-> IF err.msg = "" THEN "malformed expression" ELSE err.msg]

Parsed(c, normalized) ==
    [kind |-> "ok", input |-> normalized, caret |-> -1, msg |-> "", crontab |-> c]

\* The parsers of the six fields, in order.
FieldNames == <<"minutes", "hours", "days_of_month", "months", "days_of_week", "timezone">>

ParseField(k, part) ==
    CASE k = 1 -> parse_minutes(part)
      [] k = 2 -> parse_hours(part)
      [] k = 3 -> parse_days_of_month(part)
      [] k = 4 -> parse_months(part)
      [] k = 5 -> parse_days_of_week(part)
      [] k = 6 -> parse_timezone(part)

\* parse_crontab from its k-th field on: the field starts at offset `from`
\* and ends at the next space (the last field at the end of the text);
\* `fields` are the fields parsed before it.
RECURSIVE ParseFrom(_, _, _, _)
ParseFrom(normalized, k, from, fields) ==
    IF k > 6 THEN Parsed(fields, normalized)
    ELSE IF SlicePanics(normalized, from, Len(normalized)) THEN Panic
    ELSE Let({ Let({ IF ~field.ok THEN format_parse_error(normalized, from, field)
                     ELSE ParseFrom(normalized, k + 1, to + 1,
                                    fields @@ (FieldNames[k] :> field.val))
                     : field \in {ParseField(k, Slice(normalized, from, to))} })
               : to \in {IF k = 6 THEN Len(normalized) ELSE FieldEnd(normalized, from)} })

parse_crontab(t) == ParseFrom(normalize_crontab(t), 1, 0, <<>>)

-----------------------------------------------------------------------------
(* The parser's specification: parse_crontab applied once to a text made   *)
(* of up to MaxTokens tokens with whitespace around and between them.      *)

MaxTokens == 6

\* A field every position accepts but the zone, a number every numeric
\* field accepts, a number no field accepts, and a zone.
TokenPool == { <<"*">>, <<"7">>, <<"6", "1">>, <<"U", "T", "C">> }

\* The whitespace between two tokens and the whitespace at both ends of the
\* text: single spaces and no margin, or a tab and a space with a margin.
Layouts == { [sep |-> <<" ">>, margin |-> <<>>],
             [sep |-> <<"\t", " ">>, margin |-> <<" ">>] }

RECURSIVE Spaced(_, _)
Spaced(tokens, sep) ==
    IF tokens = <<>> THEN <<>>
    ELSE IF Len(tokens) = 1 THEN tokens[1]
    ELSE tokens[1] \o sep \o Spaced(Tail(tokens), sep)

Texts ==
    UNION { { l.margin \o Spaced(tokens, l.sep) \o l.margin : l \in Layouts }
            : tokens \in UNION { [1..n -> TokenPool] : n \in 0..MaxTokens } }

InitParse ==
    /\ input \in Texts
    /\ crontab = MakeCrontab({}, {}, AnyDayOfMonth, {}, AnyDayOfWeek)
    /\ timestamp = 0
    /\ origin = 0
    /\ pc = "idle"
    /\ method = "none"
    /\ start = -1
    /\ bound = NoZoned
    /\ next = NoZoned
    /\ outcome = NoOutcome
    /\ returned = <<>>

ParseCrontab ==
    /\ pc = "idle"
    /\ pc' = "parsed"
    /\ outcome' = parse_crontab(input)
    /\ UNCHANGED <<crontab, timestamp, origin, method, start, bound, next, returned, input>>

SpecParse == InitParse /\ [][ParseCrontab]_vars

TokenCount(t) == Len(split_ascii_whitespace(t, 1, <<>>))

\* C10: for every input of fewer than six whitespace-separated tokens,
\* parse_crontab returns an error value, never a panic, that shows the whole
\* normalized input with the caret under one of its columns or just past its
\* end.
C10_FewerThanSixTokensIsAnError ==
    (pc = "parsed" /\ TokenCount(input) < 6)
        => /\ outcome.kind = "error"
           /\ outcome.input = normalize_crontab(input)
           /\ outcome.caret \in 0..Len(normalize_crontab(input))

-----------------------------------------------------------------------------
(* Specification SpecNormalize: normalize_crontab applied once to a text   *)
(* of up to MaxTextLen characters.                                         *)

MaxTextLen == 5

\* Three kinds of ASCII whitespace and two other characters.
TextChars == {" ", "\t", "\n", "*", "7"}

InitNormalize ==
    /\ input \in UNION { [1..n -> TextChars] : n \in 0..MaxTextLen }
    /\ crontab = MakeCrontab({}, {}, AnyDayOfMonth, {}, AnyDayOfWeek)
    /\ timestamp = 0
    /\ origin = 0
    /\ pc = "idle"
    /\ method = "none"
    /\ start = -1
    /\ bound = NoZoned
    /\ next = NoZoned
    /\ outcome = NoOutcome
    /\ returned = <<>>

NormalizeCrontab ==
    /\ pc = "idle"
    /\ pc' = "normalized"
    /\ outcome' = [kind |-> "normalized", text |-> normalize_crontab(input)]
    /\ UNCHANGED <<crontab, timestamp, origin, method, start, bound, next, returned, input>>

SpecNormalize == InitNormalize /\ [][NormalizeCrontab]_vars

\* The characters of t that are not whitespace, in order.
Visible(t) == SelectSeq(t, LAMBDA c : ~IsAsciiWhitespace(c))

\* The number of maximal runs of whitespace of t that lie between two
\* characters that are not whitespace.
InnerRuns(t) ==
    Cardinality({i \in 2..Len(t) :
        /\ IsAsciiWhitespace(t[i]) /\ ~IsAsciiWhitespace(t[i - 1])
        /\ \E j \in (i + 1)..Len(t) : ~IsAsciiWhitespace(t[j])})

\* t has single spaces as its only whitespace, and none at its ends.
IsCompact(t) ==
    /\ \A i \in 1..Len(t) : IsAsciiWhitespace(t[i]) => t[i] = " "
    /\ t # <<>> => t[1] # " " /\ t[Len(t)] # " "
    /\ \A i \in 1..(Len(t) - 1) : ~(t[i] = " " /\ t[i + 1] = " ")

\* C13: normalize_crontab is idempotent; its output has no whitespace at its
\* ends, no whitespace but single spaces; it keeps the characters that are
\* not whitespace and puts one space for every run of whitespace between
\* tokens; it is the identity on a text that is already in that form.
C13_NormalizeIsIdempotentAndCompact ==
    pc = "normalized" =>
        /\ normalize_crontab(outcome.text) = outcome.text
        /\ IsCompact(outcome.text)
        /\ Visible(outcome.text) = Visible(input)
        /\ InnerRuns(outcome.text) = InnerRuns(input)
        /\ IsCompact(input) => outcome.text = input

\* A text with a margin and a run of a tab and a line feed between two
\* tokens was normalized.
C13_Witness ==
    /\ pc = "normalized"
    /\ input = <<" ", "*", "\t", "\n", "7">>
    /\ outcome.text = <<"*", " ", "7">>

-----------------------------------------------------------------------------
(* Specification SpecFields: the parser of one of the five schedule fields *)
(* applied, as Parser::parse does in parse_crontab, to one part: a list of *)
(* up to MaxTerms terms separated by commas.                               *)

MaxTerms == 3

\* The decimal digits of n.
RECURSIVE Decimal(_)
Decimal(n) ==
    IF n < 10 THEN <<Digits[n + 1]>>
    ELSE Decimal(n \div 10) \o <<Digits[(n % 10) + 1]>>

\* Numbers at and around the ends of the fields' domains and of u8.
SingleNumbers == {0, 1, 2, 5, 7, 8, 12, 13, 23, 24, 31, 32, 59, 60, 100, 255, 256, 10086}

\* The ends of ranges and the bases of steps: numbers and names of days.
RangeNumbers == {0, 1, 5, 7, 24, 31, 60}

RangeAtoms ==
    {Decimal(n) : n \in RangeNumbers}
        \cup {WeekdayNames[1], WeekdayNames[2], WeekdayNames[7]}

RangeTerms == {a \o <<"-">> \o b : a, b \in RangeAtoms}

\* The steps: zero, small ones, and numbers next to the ends of the domains.
StepNumbers == {0, 1, 2, 7, 8, 12, 13, 30, 59, 60, 255, 256}

StepTerms ==
    {c \o <<"/">> \o Decimal(st) :
        c \in {<<"*">>} \cup RangeAtoms \cup RangeTerms, st \in StepNumbers}

\* `L`, `<d>W`, `<w>L` and `<w>#<n>`, alone and with a range or a step.
SuffixTerms ==
    {<<"L">>, <<"L", "-", "3">>, <<"1", "-", "L">>, <<"L", "/", "2">>,
     <<"*", "/", "L">>, <<"5", "W", "/", "2">>, <<"1", "-", "5", "W">>, <<"W">>}
        \cup {Decimal(d) \o <<"W">> : d \in {0, 1, 17, 31, 32}}
        \cup {a \o <<"L">> : a \in RangeAtoms}
        \cup {a \o <<"#">> \o Decimal(n) :
                 a \in RangeAtoms, n \in {0, 1, 2, 5, 6, 127, 128, 255, 256}}

\* Texts that are no term.
MalformedTerms ==
    {<<>>, <<"*", "*">>, <<"2", "9", "-">>, <<"2", "9", "-", "-", "3", "0">>,
     <<"T", "T", "T">>, <<"-", "1">>, <<"0", "1">>, <<"1", "/">>, <<"*", "-", "5">>}

Terms ==
    {<<"*">>} \cup {Decimal(n) : n \in SingleNumbers}
        \cup {WeekdayNames[i] : i \in 1..7}
        \cup RangeTerms \cup StepTerms \cup SuffixTerms \cup MalformedTerms

\* The terms that follow the first term of a list.
ListTerms ==
    {<<"*">>, <<"2">>, <<"1", "0">>, <<"1", "0", "0">>, <<"7">>, <<"0">>, <<"L">>,
     <<"1", "7", "W">>, <<"5", "L">>, <<"M", "O", "N", "#", "2">>,
     <<"5", "-", "1">>, <<"1", "-", "1", "0">>, <<"*", "/", "0">>, <<>>}

RECURSIVE Commas(_)
Commas(terms) ==
    IF Len(terms) = 1 THEN terms[1]
    ELSE terms[1] \o <<",">> \o Commas(Tail(terms))

Parts ==
    Terms \cup
    UNION { {Commas(<<a>> \o rest) : a \in ListTerms, rest \in [1..n -> ListTerms]}
            : n \in 1..(MaxTerms - 1) }

InitFields ==
    /\ input \in Parts
    /\ method \in {FieldNames[k] : k \in 1..5}
    /\ crontab = MakeCrontab({}, {}, AnyDayOfMonth, {}, AnyDayOfWeek)
    /\ timestamp = 0
    /\ origin = 0
    /\ pc = "idle"
    /\ start = -1
    /\ bound = NoZoned
    /\ next = NoZoned
    /\ outcome = NoOutcome
    /\ returned = <<>>

\* `parse_<field>.parse(part)`
ParsePart ==
    /\ pc = "idle"
    /\ pc' = "parsed"
    /\ outcome' = [kind |-> method,
                   result |-> ParseField(CHOOSE k \in 1..5 : FieldNames[k] = method,
                                         input)]
    /\ UNCHANGED <<crontab, timestamp, origin, method, start, bound, next, returned, input>>

SpecFields == InitFields /\ [][ParsePart]_vars

\* The field's part was parsed, with success or not.
ParsedAs(field) == pc = "parsed" /\ outcome.kind = field

Accepted == pc = "parsed" /\ outcome.result.ok

\* The result records `L`, and `<d>W` for the days of `nearest`.
RecordsDayOfMonthTerms(result, last, nearest) ==
    /\ result.ok
    /\ {"last_day_of_month", "nearest_weekdays"} \subseteq DOMAIN result.val
    /\ result.val.last_day_of_month = last
    /\ result.val.nearest_weekdays = nearest

\* C14 as claimed: the day-of-month parser accepts `L` and `<d>W` for d in
\* 1..31, alone or in a list such as `17W,L`, recording last_day_of_month and
\* nearest_weekdays, and rejects `L` or `W` with a range or a step.
C14_DayOfMonthAcceptsLastAndNearest ==
    ParsedAs("days_of_month") =>
        /\ input = <<"L">> => RecordsDayOfMonthTerms(outcome.result, TRUE, {})
        /\ \A d \in {1, 17, 31} :
              input = Decimal(d) \o <<"W">>
                  => RecordsDayOfMonthTerms(outcome.result, FALSE, {d})
        /\ input = <<"1", "7", "W", ",", "L">>
              => RecordsDayOfMonthTerms(outcome.result, TRUE, {17})
        /\ input \in {<<"L", "-", "3">>, <<"1", "-", "L">>, <<"L", "/", "2">>,
                      <<"*", "/", "L">>, <<"5", "W", "/", "2">>,
                      <<"1", "-", "5", "W">>}
              => ~outcome.result.ok

\* C15 as claimed: every pair (n, weekday) that the day-of-week parser
\* records has n in 1..5; a term `<w>#<n>` with n = 0 or n > 5 is an error.
C15_NthCountIsOneToFive ==
    (ParsedAs("days_of_week") /\ Accepted) =>
        \A p \in outcome.result.val.nth_days_of_week : p[1] \in 1..5

\* The fields parsed by do_parse_number_only.
NumberOnly == {"minutes", "hours", "days_of_month", "months"}

\* C16 as claimed: after a successful parse every set is non-empty: the
\* minutes, the hours, the months, the day-of-month literals and the
\* day-of-week literals, also for a day-of-week field made only of `<w>L` or
\* `<w>#<n>` terms.
C16_EverySetIsNonEmpty ==
    Accepted =>
        IF method \in NumberOnly THEN outcome.result.val.values # {}
        ELSE outcome.result.val.literals # {}

\* C16 amended: after a successful parse the minutes, hours, months and
\* day-of-month values are non-empty, and the day-of-week field has a
\* literal, a last day of the week or an n-th day of the week (its literals
\* may be empty).
C16_EveryFieldIsNonEmpty ==
    Accepted =>
        IF method \in NumberOnly THEN outcome.result.val.values # {}
        ELSE LET dow == outcome.result.val
             IN  \/ dow.literals # {}
                 \/ dow.last_days_of_week # {}
                 \/ dow.nth_days_of_week # {}

\* The day-of-week field `MON#2` was accepted with no literal.
C16_Witness ==
    /\ ParsedAs("days_of_week")
    /\ Accepted
    /\ input = <<"M", "O", "N", "#", "2">>
    /\ outcome.result.val.literals = {}
    /\ outcome.result.val.nth_days_of_week = {<<2, 1>>}

\* The domain of the values of a field: the range its parser is given, and
\* 1..7 for the days of the week, whose 0 is stored as 7.
FieldDomain(field) ==
    CASE field = "minutes" -> 0..59
      [] field = "hours" -> 0..23
      [] field = "days_of_month" -> 1..31
      [] field = "months" -> 1..12
      [] field = "days_of_week" -> 1..7

\* The numbers that may be written in a field.
Writable(field) == IF field = "days_of_week" THEN 0..7 ELSE FieldDomain(field)

\* The terms of the model that write a number outside the field's domain as
\* a single value, as an end of a range or as the base of a step.
OutOfDomainTerms ==
    [field \in {FieldNames[k] : k \in 1..5} |->
        LET bad  == {Decimal(n) : n \in (SingleNumbers \cup RangeNumbers) \ Writable(field)}
            ends == {a \o <<"-">> \o b : a \in bad \cap RangeAtoms, b \in RangeAtoms}
                       \cup {a \o <<"-">> \o b : a \in RangeAtoms, b \in bad \cap RangeAtoms}
        IN  bad \cup ends
                \cup {c \o <<"/">> \o Decimal(st) :
                         c \in (bad \cap RangeAtoms) \cup ends, st \in StepNumbers}]

\* The comma-separated terms of the text t.
TermsOf(t) ==
    LET cuts == {0, Len(t) + 1} \cup {i \in 1..Len(t) : t[i] = ","}
    IN  {SubSeq(t, x[1] + 1, x[2] - 1) :
            x \in {y \in cuts \X cuts :
                      /\ y[1] < y[2]
                      /\ \A k \in cuts : ~(y[1] < k /\ k < y[2])}}

\* The text before, and after, the first ch of t (all of t without a ch).
Before(t, ch) ==
    IF \E i \in 1..Len(t) : t[i] = ch
    THEN SubSeq(t, 1, (CHOOSE i \in 1..Len(t) : t[i] = ch /\ \A j \in 1..(i - 1) : t[j] # ch) - 1)
    ELSE t

After(t, ch) == SubSeq(t, Len(Before(t, ch)) + 2, Len(t))

\* C17: after a successful parse the values of a field are in its domain
\* (minutes 0..59, hours 0..23, months 1..12, days of the month 1..31, days
\* of the week 1..7); a text with a number outside the domain as a single
\* value, an end of a range or the base of a step, anywhere in its list, is
\* an error; the days of the week 0, 7 and SUN are all stored as 7.
C17_ValuesAreInTheDomain ==
    pc = "parsed" =>
        /\ Accepted =>
              (IF method \in NumberOnly THEN outcome.result.val.values
               ELSE outcome.result.val.literals) \subseteq FieldDomain(method)
        /\ TermsOf(input) \cap OutOfDomainTerms[method] # {} => ~outcome.result.ok
        /\ (method = "days_of_week" /\ input \in {<<"0">>, <<"7">>, WeekdayNames[1]})
              => outcome.result.ok /\ outcome.result.val.literals = {7}

\* The minutes `2,10,100` were rejected for the last term of the list.
C17_Witness ==
    /\ ParsedAs("minutes")
    /\ input = <<"2", ",", "1", "0", ",", "1", "0", "0">>
    /\ ~outcome.result.ok
    /\ outcome.result.cut

\* The number an end of a range is written for: SUN = 0 .. SAT = 6 for a
\* name of a day.
AtomValue(a) ==
    IF \E i \in 1..7 : WeekdayNames[i] = a
    THEN (CHOOSE i \in 1..7 : WeekdayNames[i] = a) - 1
    ELSE CHOOSE n \in RangeNumbers : Decimal(n) = a

\* The ends of ranges a field can be written with: numbers of its domain,
\* and names for the days of the week.
FieldAtoms(field) ==
    {a \in RangeAtoms :
        /\ AtomValue(a) \in Writable(field)
        /\ (a \in {WeekdayNames[i] : i \in 1..7}) => field = "days_of_week"}

\* The values of a field after a successful parse, and what a set of
\* numbers is stored as: the day of the week 0 as 7.
FieldValues(field, val) == IF field \in NumberOnly THEN val.values ELSE val.literals

StoredAs(field, values) ==
    IF field \in NumberOnly THEN values ELSE {norm_sunday(n) : n \in values}

\* from, from + s, from + 2s, .. not exceeding to.
EveryNth(from, to, s) == {n \in from..to : (n - from) % s = 0}

\* The field was parsed to the values `values`.
ExpandedTo(values) ==
    /\ outcome.result.ok
    /\ FieldValues(method, outcome.result.val) = StoredAs(method, values)

Min(S) == CHOOSE n \in S : \A m \in S : n <= m

Max(S) == CHOOSE n \in S : \A m \in S : n >= m

\* C18: a step term is an error, alone or in a list, when its step is 0 or
\* outside the field's domain; otherwise `a-b/s` gives a, a+s, .. up to b,
\* `a/s` gives a, a+s, .. up to the field's upper bound, and `*/s` gives lo,
\* lo+s, .. up to the upper bound from the field's lower bound lo (a day of
\* the week 0 being stored as 7).
C18_StepTermsExpand ==
    pc = "parsed" =>
        \A term \in TermsOf(input) \cap StepTerms :
            LET dom == Writable(method)
                c   == Before(term, "/")
                s   == CHOOSE n \in StepNumbers : Decimal(n) = After(term, "/")
                a   == Before(c, "-")
                b   == After(c, "-")
            IN  IF s = 0 \/ s \notin dom THEN ~outcome.result.ok
                ELSE input = term =>
                        /\ c = <<"*">> => ExpandedTo(EveryNth(Min(dom), Max(dom), s))
                        /\ c \in FieldAtoms(method)
                              => ExpandedTo(EveryNth(AtomValue(c), Max(dom), s))
                        /\ ( /\ c \in RangeTerms
                             /\ {a, b} \subseteq FieldAtoms(method)
                             /\ AtomValue(a) <= AtomValue(b) )
                              => ExpandedTo(EveryNth(AtomValue(a), AtomValue(b), s))

\* The months `*/2` were parsed to 1, 3, 5, 7, 9, 11.
C18_Witness ==
    /\ ParsedAs("months")
    /\ input = <<"*", "/", "2">>
    /\ Accepted
    /\ outcome.result.val.values = {1, 3, 5, 7, 9, 11}

\* C19: a range `a-b` with both ends in the field's domain gives every value
\* of a..b when a <= b, and when a > b it is an error, alone or in a list;
\* the error is "range must be in ascending order" and commits: it is
\* reported at the term, the single value `a` is not tried in its place.
C19_RangesAscendOrCommit ==
    pc = "parsed" =>
        \A term \in TermsOf(input) \cap RangeTerms :
            LET a == Before(term, "-")
                b == After(term, "-")
            IN  {a, b} \subseteq FieldAtoms(method) =>
                    IF AtomValue(a) <= AtomValue(b)
                    THEN input = term => ExpandedTo(AtomValue(a)..AtomValue(b))
                    ELSE /\ ~outcome.result.ok
                         /\ Before(input, ",") = term =>
                               /\ outcome.result.cut
                               /\ outcome.result.pos = 0
                               /\ outcome.result.msg = "range must be in ascending order"

\* The hours `5-1` were rejected as a descending range.
C19_Witness ==
    /\ ParsedAs("hours")
    /\ input = <<"5", "-", "1">>
    /\ ~outcome.result.ok
    /\ outcome.result.cut
    /\ outcome.result.msg = "range must be in ascending order"

-----------------------------------------------------------------------------
(* Specification SpecTermination: one call of Crontab::find_next, through  *)
(* Driver::find_next_timestamp, whose loop runs on once it is entered, as  *)
(* the sequential code does.                                               *)

\* `self.crontab.find_next(self.timestamp)` on a new Driver
FindNext ==
    /\ returned = <<>>
    /\ Call("find_next_timestamp")

\* One iteration of the loop of find_next.
Iterate ==
    \/ SkipMonths
    \/ SkipDaysOfMonth
    \/ SkipHours
    \/ SkipMinutes
    \/ SkipDaysOfWeek
    \/ Exhausted
    \/ Return

NextTermination == FindNext \/ Iterate

SpecTermination == Init /\ [][NextTermination]_vars /\ WF_vars(Iterate)

-----------------------------------------------------------------------------
(* The Driver's cursor on failure, checked under Spec.                     *)

\* C22: a Driver method that fails leaves the cursor where it was, so that
\* the call that follows starts from the same instant and fails in the same
\* way; the cursor changes only in next_zoned and next_timestamp, to the
\* instant find_next returned with success.
C22_FailureLeavesTheCursor ==
    [][ /\ (pc = "loop" /\ pc' = "idle" /\ outcome'.kind # "ok")
              => /\ timestamp' = timestamp
                 /\ timestamp' = start
        /\ (pc = "idle" /\ pc' = "loop" /\ outcome.kind = "exhausted")
              => /\ start' = start
                 /\ next' = InitialCandidate(ToZoned(start))
        /\ (/\ pc = "loop" /\ pc' = "idle"
            /\ returned # <<>>
            /\ returned[Len(returned)].kind = "exhausted")
              => outcome'.kind = "exhausted"
        /\ timestamp' # timestamp
              => /\ pc = "loop"
                 /\ method \in {"next_zoned", "next_timestamp"}
                 /\ outcome'.kind = "ok"
                 /\ timestamp' = TimestampOf(next)
                 /\ timestamp' = InstantOf(outcome')
      ]_vars

\* next_zoned failed, and next_timestamp after it failed from the same start.
C22_Witness ==
    /\ Len(returned) = 2
    /\ returned[1].method = "next_zoned"
    /\ returned[1].kind = "exhausted"
    /\ returned[2].method = "next_timestamp"
    /\ returned[2].kind = "exhausted"
    /\ pc = "idle"
    /\ timestamp = origin
    /\ start = origin

=============================================================================
